---- MODULE Spec2Model ----
(***************************************************************************)
(* globber: wildcard matching on strings (src/src/lib.rs).                 *)
(*                                                                         *)
(* A string is a sequence of one-character strings.  The pattern compiler  *)
(* build_glob_pattern and the matcher glob_match_prebuilt are operators    *)
(* that follow the Rust code statement by statement; a panic (unwrap of    *)
(* None) is the outcome "panic".  The actions are the calls of the public  *)
(* API.                                                                    *)
(***************************************************************************)
EXTENDS Integers, Sequences, FiniteSets, TLC

\* ------------------------------------------------------------------ bounds
MaxPatLen == 5
MaxValLen == 4
MaxCasePatLen == 4
MaxCaseValLen == 2
MaxListLen == 2
MaxListValLen == 2

\* ------------------------------------------------------------ characters
Star == "*"
Letters == {"a", "A", "b"}
PatternChars == Letters \cup {Star}

\* Option<char>::None of the character iterators
None == "None"

BoundedSeq(S, n) == UNION {[1..m -> S] : m \in 0..n}

\* char::to_uppercase, on the characters of the model
UpperChar(c) == CASE c = "a" -> "A"
                  [] c = "b" -> "B"
                  [] OTHER -> c

\* str::to_uppercase
to_uppercase(s) == [k \in 1..Len(s) |-> UpperChar(s[k])]

\* &s[from..to] with the 0-based byte offsets of the code
Slice(s, from, to) == SubSeq(s, from + 1, to)

\* str::starts_with / str::ends_with
starts_with(s, p) == Len(p) <= Len(s) /\ SubSeq(s, 1, Len(p)) = p
ends_with(s, p) == Len(p) <= Len(s) /\ SubSeq(s, Len(s) - Len(p) + 1, Len(s)) = p

\* pattern.bytes().filter(|ch| ch == &b'*').count()
CountStar(s) == Cardinality({k \in 1..Len(s) : s[k] = Star})

\* str::find('*'): the 0-based offset of the first wildcard, -1 for None
FindStar(s) == IF \E k \in 1..Len(s) : s[k] = Star
               THEN (CHOOSE k \in 1..Len(s) : s[k] = Star /\ \A j \in 1..(k - 1) : s[j] # Star) - 1
               ELSE -1

\* ------------------------------------------------------------ data model
\* enum Multipart
ExactStart(s) == [kind |-> "ExactStart", s |-> s]
AnyUntil(s) == [kind |-> "AnyUntil", s |-> s]
AnyUntilExactEnd(s) == [kind |-> "AnyUntilExactEnd", s |-> s]
AnyEnd == [kind |-> "AnyEnd", s |-> <<>>]

\* enum GlobPattern
MatchAny == [kind |-> "MatchAny", s1 |-> <<>>, s2 |-> <<>>, multi |-> <<>>]
MatchEnd(e) == [kind |-> "MatchEnd", s1 |-> <<>>, s2 |-> e, multi |-> <<>>]
MatchStart(s) == [kind |-> "MatchStart", s1 |-> s, s2 |-> <<>>, multi |-> <<>>]
MatchBothEnds(s, e) == [kind |-> "MatchBothEnds", s1 |-> s, s2 |-> e, multi |-> <<>>]
MatchFull(f) == [kind |-> "MatchFull", s1 |-> f, s2 |-> <<>>, multi |-> <<>>]
MultipartPattern(parts) == [kind |-> "Multipart", s1 |-> <<>>, s2 |-> <<>>, multi |-> parts]
NoPattern == [kind |-> "None", s1 |-> <<>>, s2 |-> <<>>, multi |-> <<>>]

\* Result<GlobPattern, ()>
Ok(p) == [ok |-> TRUE, val |-> p]
Err == [ok |-> FALSE, val |-> NoPattern]

\* ------------------------------------------------------- pattern compiler
\* lib.rs 202-211: the first segment and the offset after the first
\* wildcard that ends it
FirstPart(pattern) ==
    IF pattern[1] = Star
    THEN LET wildcard == FindStar(Slice(pattern, 1, Len(pattern))) + 1
         IN [parts |-> <<AnyUntil(Slice(pattern, 1, wildcard))>>, pos |-> wildcard + 1]
    ELSE LET wildcard == FindStar(pattern)
         IN [parts |-> <<ExactStart(Slice(pattern, 0, wildcard))>>, pos |-> wildcard + 1]

\* lib.rs 218-221: while let Some(found) = pattern[pos..].find('*')
RECURSIVE WhileFind(_, _, _)
WhileFind(pattern, pos, parts) ==
    LET found == FindStar(Slice(pattern, pos, Len(pattern)))
    IN IF found = -1
       THEN [parts |-> parts, pos |-> pos]
       ELSE WhileFind(pattern, pos + found + 1,
                      Append(parts, AnyUntil(Slice(pattern, pos, pos + found))))

\* LastPart with the trailing literal cut one offset too late
LastPart_OffByOne(pattern, pos, parts) ==
    IF pos = Len(pattern)
    THEN Append(parts, AnyEnd)
    ELSE IF pos < Len(pattern)
         THEN Append(parts, AnyUntilExactEnd(Slice(pattern, pos + 1, Len(pattern))))
         ELSE parts

\* lib.rs 223-227: the segment after the last wildcard
LastPart(pattern, pos, parts) ==
    IF pos = Len(pattern)
    THEN Append(parts, AnyEnd)
    ELSE IF pos < Len(pattern)
         THEN Append(parts, AnyUntilExactEnd(Slice(pattern, pos, Len(pattern))))
         ELSE parts

\* lib.rs 231-237: an AnyUntil with an empty literal is an error
Validate(parts) ==
    IF \E k \in 1..Len(parts) : parts[k].kind = "AnyUntil" /\ parts[k].s = <<>>
    THEN Err
    ELSE Ok(MultipartPattern(parts))

\* lib.rs 196-240: two or more wildcards
BuildMultipart(pattern) ==
    LET first == FirstPart(pattern)
    IN IF first.pos = Len(pattern)
       THEN Ok(MultipartPattern(Append(first.parts, AnyEnd)))
       ELSE LET w == WhileFind(pattern, first.pos, first.parts)
            IN Validate(LastPart(pattern, w.pos, w.parts))

\* lib.rs 187-195: exactly one wildcard
BuildSingle(pattern) ==
    IF pattern[1] = Star
    THEN Ok(MatchEnd(Slice(pattern, 1, Len(pattern))))
    ELSE IF pattern[Len(pattern)] = Star
         THEN Ok(MatchStart(Slice(pattern, 0, Len(pattern) - 1)))
         ELSE LET wildcard == FindStar(pattern)
              IN Ok(MatchBothEnds(Slice(pattern, 0, wildcard),
                                  Slice(pattern, wildcard + 1, Len(pattern))))

build_glob_pattern(pattern) ==
    IF pattern = <<Star>>
    THEN Ok(MatchAny)
    ELSE IF CountStar(pattern) = 0
         THEN Ok(MatchFull(pattern))
         ELSE IF CountStar(pattern) = 1
              THEN BuildSingle(pattern)
              ELSE BuildMultipart(pattern)

\* ----------------------------------------------------------------- matcher
\* ch_iter.next() of value.chars(), i characters already taken; the
\* iterator is fused, so it keeps answering None at the end
IterNext(value, i) ==
    IF i < Len(value)
    THEN [ch |-> value[i + 1], i |-> i + 1]
    ELSE [ch |-> None, i |-> i]

\* lib.rs 291-296: for ch_st in start.chars(), from the k-th character on
RECURSIVE ExactStartFor(_, _, _, _, _)
ExactStartFor(start, value, k, ch, i) ==
    IF k > Len(start)
    THEN [out |-> "matched", i |-> i]
    ELSE IF ch = None
         THEN [out |-> "panic", i |-> i]
         ELSE IF ch # start[k]
              THEN [out |-> "false", i |-> i]
              ELSE LET n == IterNext(value, i)
                   IN ExactStartFor(start, value, k + 1, n.ch, n.i)

\* lib.rs 312-320 and 354-362: skip to the next character equal to ch_un
RECURSIVE ScanFor(_, _, _)
ScanFor(value, ch_un, i) ==
    LET n == IterNext(value, i)
    IN IF n.ch = None
       THEN [out |-> "false", i |-> n.i]
       ELSE IF n.ch = ch_un
            THEN [out |-> "found", i |-> n.i]
            ELSE ScanFor(value, ch_un, n.i)

\* lib.rs 311-321 and 353-363: the position of a possible start of the part
FindPossibleStart(until, value, ch, i) ==
    IF until = <<>>
    THEN [out |-> "panic", i |-> i]
    ELSE IF ch # until[1]
         THEN ScanFor(value, until[1], i)
         ELSE [out |-> "found", i |-> i]

\* lib.rs 323-337 and 365-379: compare the rest of the part, from its k-th
\* character on
RECURSIVE MatchRest(_, _, _, _)
MatchRest(until, value, k, i) ==
    IF k > Len(until)
    THEN [out |-> "matched", i |-> i]
    ELSE LET n == IterNext(value, i)
         IN IF n.ch = None
            THEN [out |-> "false", i |-> n.i]
            ELSE IF n.ch # until[k]
                 THEN [out |-> "mismatch", i |-> n.i]
                 ELSE MatchRest(until, value, k + 1, n.i)

\* lib.rs 307-337: the AnyUntil arm, up to the end of its second loop
AnyUntilArm(until, value, ch, i) ==
    LET st == FindPossibleStart(until, value, ch, i)
    IN IF st.out = "found" THEN MatchRest(until, value, 2, st.i) ELSE st

\* lib.rs 348-390: the AnyUntilExactEnd arm
RECURSIVE AnyUntilExactEndArm(_, _, _, _)
AnyUntilExactEndArm(until, value, ch, i) ==
    LET st == FindPossibleStart(until, value, ch, i)
    IN IF st.out # "found"
       THEN st.out
       ELSE LET r == MatchRest(until, value, 2, st.i)
            IN IF r.out = "false"
               THEN "false"
               ELSE LET n == IterNext(value, r.i)
                    IN IF n.ch = None
                       THEN "true"
                       ELSE AnyUntilExactEndArm(until, value, n.ch, n.i)

\* lib.rs 301-305 and 342-346: current_pos += 1 and the test that follows;
\* current_pos is 1-based here
PastLast(multi, current_pos) == current_pos + 1 > Len(multi)

\* lib.rs 279-398: the loop 'outer, about to take the next character
RECURSIVE OuterLoop(_, _, _, _)
OuterLoop(multi, value, current_pos, i) ==
    LET n == IterNext(value, i)
        current == multi[current_pos]
    IN IF current.kind = "AnyEnd"
       THEN "true"
       ELSE IF n.ch = None
            THEN "false"
            ELSE IF current.kind = "ExactStart"
                 THEN LET r == ExactStartFor(current.s, value, 1, n.ch, n.i)
                      IN IF r.out # "matched"
                         THEN r.out
                         ELSE IF PastLast(multi, current_pos)
                              THEN "true"
                              ELSE OuterLoop(multi, value, current_pos + 1, r.i)
                 ELSE IF current.kind = "AnyUntil"
                      THEN LET r == AnyUntilArm(current.s, value, n.ch, n.i)
                           IN IF r.out = "mismatch"
                              THEN OuterLoop(multi, value, current_pos, r.i)
                              ELSE IF r.out # "matched"
                                   THEN r.out
                                   ELSE IF PastLast(multi, current_pos)
                                        THEN "true"
                                        ELSE OuterLoop(multi, value, current_pos + 1, r.i)
                      ELSE AnyUntilExactEndArm(current.s, value, n.ch, n.i)

Bool(b) == IF b THEN "true" ELSE "false"

\* glob_match_prebuilt whose MatchFull arm compares a prefix of the subject
glob_match_prebuilt_FullAsPrefix(pattern, value) ==
    CASE pattern.kind = "MatchAny" -> "true"
      [] pattern.kind = "MatchEnd" -> Bool(ends_with(value, pattern.s2))
      [] pattern.kind = "MatchStart" -> Bool(starts_with(value, pattern.s1))
      [] pattern.kind = "MatchBothEnds" ->
            Bool(starts_with(value, pattern.s1) /\ ends_with(value, pattern.s2))
      [] pattern.kind = "MatchFull" -> Bool(starts_with(value, pattern.s1))
      [] pattern.kind = "Multipart" ->
            IF pattern.multi = <<>> THEN "false" ELSE OuterLoop(pattern.multi, value, 1, 0)

\* the outcome is "true", "false" or "panic"
glob_match_prebuilt(pattern, value) ==
    CASE pattern.kind = "MatchAny" -> "true"
      [] pattern.kind = "MatchEnd" -> Bool(ends_with(value, pattern.s2))
      [] pattern.kind = "MatchStart" -> Bool(starts_with(value, pattern.s1))
      [] pattern.kind = "MatchBothEnds" ->
            Bool(starts_with(value, pattern.s1) /\ ends_with(value, pattern.s2))
      [] pattern.kind = "MatchFull" -> Bool(value = pattern.s1)
      [] pattern.kind = "Multipart" ->
            IF pattern.multi = <<>> THEN "false" ELSE OuterLoop(pattern.multi, value, 1, 0)

\* ------------------------------------------------------------ entry points
\* glob_match that uppercases the pattern and not the subject
glob_match_RawValue(p, v) ==
    LET built == build_glob_pattern(to_uppercase(p))
    IN IF built.ok THEN glob_match_prebuilt(built.val, v) ELSE "err"

\* lib.rs 244-248
glob_match(p, v) ==
    LET built == build_glob_pattern(to_uppercase(p))
    IN IF built.ok THEN glob_match_prebuilt(built.val, to_uppercase(v)) ELSE "err"

\* lib.rs 250-254
glob_match_case_sensitive(p, v) ==
    LET built == build_glob_pattern(p)
    IN IF built.ok THEN glob_match_prebuilt(built.val, v) ELSE "err"

\* GlobCaseSensitive::build and GlobCaseSensitive::is_match; the newtype is
\* the GlobPattern it wraps
GlobCaseSensitive_build(p) == build_glob_pattern(p)
GlobCaseSensitive_is_match(self, v) == glob_match_prebuilt(self, v)

\* GlobIgnoreCase::build and GlobIgnoreCase::is_match
GlobIgnoreCase_build(p) == build_glob_pattern(to_uppercase(p))
GlobIgnoreCase_is_match(self, v) == glob_match_prebuilt(self, to_uppercase(v))

\* ---------------------------------------------------------------- GlobList
\* struct GlobList
GlobList(ic, cs) == [ignore_case_patterns |-> ic, case_sensitive_patterns |-> cs]

\* GlobList::new
GlobList_new == GlobList(<<>>, <<>>)

\* Result<GlobList, ()>
OkList(l) == [ok |-> TRUE, val |-> l]
ErrList == [ok |-> FALSE, val |-> GlobList_new]

\* Collect that drops the patterns that do not compile (a filter_map)
RECURSIVE Collect_SkipErr(_, _, _, _)
Collect_SkipErr(ps, upper, k, acc) ==
    IF k > Len(ps)
    THEN [ok |-> TRUE, val |-> acc]
    ELSE LET b == IF upper THEN build_glob_pattern(to_uppercase(ps[k])) ELSE build_glob_pattern(ps[k])
         IN Collect_SkipErr(ps, upper, k + 1, IF b.ok THEN Append(acc, b.val) ELSE acc)

\* patterns.iter().map(build).collect::<Result<Vec<_>, ()>>(): the first Err
\* ends the collection; upper is whether build uppercases (GlobIgnoreCase)
RECURSIVE Collect(_, _, _, _)
Collect(ps, upper, k, acc) ==
    IF k > Len(ps)
    THEN [ok |-> TRUE, val |-> acc]
    ELSE LET b == IF upper THEN GlobIgnoreCase_build(ps[k]) ELSE GlobCaseSensitive_build(ps[k])
         IN IF b.ok
            THEN Collect(ps, upper, k + 1, Append(acc, b.val))
            ELSE [ok |-> FALSE, val |-> <<>>]

\* GlobList::build
GlobList_build(ps) ==
    LET c == Collect(ps, FALSE, 1, <<>>)
    IN IF c.ok THEN OkList(GlobList(<<>>, c.val)) ELSE ErrList

\* GlobList::build_ignore_case
GlobList_build_ignore_case(ps) ==
    LET c == Collect(ps, TRUE, 1, <<>>)
    IN IF c.ok THEN OkList(GlobList(c.val, <<>>)) ELSE ErrList

\* GlobList::add_ignore_case / add_case_sensitive
add_ignore_case(self, p) ==
    GlobList(Append(self.ignore_case_patterns, p), self.case_sensitive_patterns)
add_case_sensitive(self, p) ==
    GlobList(self.ignore_case_patterns, Append(self.case_sensitive_patterns, p))

\* GlobList::is_empty
is_empty(self) == self.ignore_case_patterns = <<>> /\ self.case_sensitive_patterns = <<>>

\* iter().any(|p| glob_match_prebuilt(&p.0, v)): stops at the first true, and
\* a panic of the closure ends the call
RECURSIVE IterAny(_, _, _)
IterAny(ps, v, k) ==
    IF k > Len(ps)
    THEN "false"
    ELSE LET r == glob_match_prebuilt(ps[k], v)
         IN IF r = "false" THEN IterAny(ps, v, k + 1) ELSE r

\* iter().all(|p| glob_match_prebuilt(&p.0, v)): stops at the first false
RECURSIVE IterAll(_, _, _)
IterAll(ps, v, k) ==
    IF k > Len(ps)
    THEN "true"
    ELSE LET r == glob_match_prebuilt(ps[k], v)
         IN IF r = "true" THEN IterAll(ps, v, k + 1) ELSE r

\* GlobList::any_match; result_1 and result_2 are both computed, in this
\* order, before they are combined
any_match(self, v) ==
    IF is_empty(self)
    THEN "false"
    ELSE LET result_1 == IF self.ignore_case_patterns # <<>>
                         THEN IterAny(self.ignore_case_patterns, to_uppercase(v), 1)
                         ELSE "false"
             result_2 == IterAny(self.case_sensitive_patterns, v, 1)
         IN IF result_1 = "panic" \/ result_2 = "panic"
            THEN "panic"
            ELSE Bool(result_1 = "true" \/ result_2 = "true")

\* GlobList::all_match
all_match(self, v) ==
    IF is_empty(self)
    THEN "true"
    ELSE LET result_1 == IF self.ignore_case_patterns # <<>>
                         THEN IterAll(self.ignore_case_patterns, to_uppercase(v), 1)
                         ELSE "true"
             result_2 == IterAll(self.case_sensitive_patterns, v, 1)
         IN IF result_1 = "panic" \/ result_2 = "panic"
            THEN "panic"
            ELSE Bool(result_1 = "true" /\ result_2 = "true")

\* GlobList::from_patterns
from_patterns(case_sensitive, ignore_case) == GlobList(ignore_case, case_sensitive)

\* GlobList::combine: the fold over glob_lists, from its k-th list on
RECURSIVE Fold(_, _, _)
Fold(glob_lists, k, acc) ==
    IF k > Len(glob_lists)
    THEN acc
    ELSE Fold(glob_lists, k + 1,
              GlobList(acc.ignore_case_patterns \o glob_lists[k].ignore_case_patterns,
                       acc.case_sensitive_patterns \o glob_lists[k].case_sensitive_patterns))

combine(glob_lists) == Fold(glob_lists, 1, GlobList_new)

\* ------------------------------------------------------------------- state
\* op        the call made last ("idle" before any)
\* pattern   the pattern string of the last compilation
\* value     the subject string of the last match or query
\* compiled  the Result of the last compilation
\* result    what the last match or query returned: "true", "false", "err"
\*           (Err(())), "panic", or "none"
\* glob_list the GlobList the caller holds
\* patterns  the argument of the last GlobList::build / build_ignore_case
\* built     the Result of the last GlobList::build / build_ignore_case
VARIABLES op, pattern, value, compiled, result, glob_list, patterns, built

vars == <<op, pattern, value, compiled, result, glob_list, patterns, built>>

listVars == <<glob_list, patterns, built>>

Patterns == BoundedSeq(PatternChars, MaxPatLen)
Values == BoundedSeq(Letters, MaxValLen)
CasePatterns == BoundedSeq(PatternChars, MaxCasePatLen)
CaseValues == BoundedSeq(Letters, MaxCaseValLen)

Init ==
    /\ op = "idle"
    /\ pattern = <<>>
    /\ value = <<>>
    /\ compiled = Err
    /\ result = "none"
    /\ glob_list = GlobList_new
    /\ patterns = <<>>
    /\ built = OkList(GlobList_new)

\* let gp = build_glob_pattern(p)
BuildGlobPattern ==
    /\ op = "idle"
    /\ \E p \in Patterns :
        /\ pattern' = p
        /\ compiled' = build_glob_pattern(p)
    /\ op' = "build_glob_pattern"
    /\ UNCHANGED <<value, result, listVars>>

\* glob_match_prebuilt(&gp, v), gp an Ok of build_glob_pattern
GlobMatchPrebuilt ==
    /\ op = "build_glob_pattern"
    /\ compiled.ok
    /\ \E v \in Values :
        /\ value' = v
        /\ result' = glob_match_prebuilt(compiled.val, v)
    /\ op' = "glob_match_prebuilt"
    /\ UNCHANGED <<pattern, compiled, listVars>>

\* glob_match(p, v)
GlobMatch ==
    /\ op = "idle"
    /\ \E p \in CasePatterns, v \in CaseValues :
        /\ pattern' = p
        /\ value' = v
        /\ compiled' = build_glob_pattern(to_uppercase(p))
        /\ result' = glob_match(p, v)
    /\ op' = "glob_match"
    /\ UNCHANGED listVars

\* glob_match_case_sensitive(p, v)
GlobMatchCaseSensitive ==
    /\ op = "idle"
    /\ \E p \in Patterns, v \in Values :
        /\ pattern' = p
        /\ value' = v
        /\ compiled' = build_glob_pattern(p)
        /\ result' = glob_match_case_sensitive(p, v)
    /\ op' = "glob_match_case_sensitive"
    /\ UNCHANGED listVars

\* let g = GlobCaseSensitive::build(p)
GlobCaseSensitiveBuild ==
    /\ op = "idle"
    /\ \E p \in CasePatterns :
        /\ pattern' = p
        /\ compiled' = GlobCaseSensitive_build(p)
    /\ op' = "GlobCaseSensitive::build"
    /\ UNCHANGED <<value, result, listVars>>

\* g.is_match(v), g an Ok of GlobCaseSensitive::build
GlobCaseSensitiveIsMatch ==
    /\ op = "GlobCaseSensitive::build"
    /\ compiled.ok
    /\ \E v \in CaseValues :
        /\ value' = v
        /\ result' = GlobCaseSensitive_is_match(compiled.val, v)
    /\ op' = "GlobCaseSensitive::is_match"
    /\ UNCHANGED <<pattern, compiled, listVars>>

\* let g = GlobIgnoreCase::build(p)
GlobIgnoreCaseBuild ==
    /\ op = "idle"
    /\ \E p \in CasePatterns :
        /\ pattern' = p
        /\ compiled' = GlobIgnoreCase_build(p)
    /\ op' = "GlobIgnoreCase::build"
    /\ UNCHANGED <<value, result, listVars>>

\* g.is_match(v), g an Ok of GlobIgnoreCase::build
GlobIgnoreCaseIsMatch ==
    /\ op = "GlobIgnoreCase::build"
    /\ compiled.ok
    /\ \E v \in CaseValues :
        /\ value' = v
        /\ result' = GlobIgnoreCase_is_match(compiled.val, v)
    /\ op' = "GlobIgnoreCase::is_match"
    /\ UNCHANGED <<pattern, compiled, listVars>>

\* A compiled pattern carries no subject state and every entry point is a
\* pure function, so one call per compiled pattern reaches every pair of a
\* pattern and a subject.
Next ==
    \/ BuildGlobPattern
    \/ GlobMatchPrebuilt
    \/ GlobMatchCaseSensitive

Spec == Init /\ [][Next]_vars

\* The case-folding entry points and the two wrapper types.
CaseNext ==
    \/ GlobMatch
    \/ GlobCaseSensitiveBuild
    \/ GlobCaseSensitiveIsMatch
    \/ GlobIgnoreCaseBuild
    \/ GlobIgnoreCaseIsMatch

CaseSpec == Init /\ [][CaseNext]_vars

\* ------------------------------------------------------- GlobList session
\* The pattern strings handed to the GlobList constructors: one per variant
\* of GlobPattern, one that does not compile, and two whose match can panic.
ListPatterns ==
    { <<"*">>, <<"a">>, <<"A", "*">>, <<"*", "a", "*">>, <<"*", "*">>,
      <<"a", "*", "*">>, <<"a", "b", "*", "a", "*">> }

ListValues == BoundedSeq(Letters, MaxListValLen)

\* the Vec<GlobCaseSensitive> and Vec<GlobIgnoreCase> a caller can make of ps
CaseSensitiveVec(ps) == [k \in 1..Len(ps) |-> GlobCaseSensitive_build(ps[k]).val]
IgnoreCaseVec(ps) == [k \in 1..Len(ps) |-> GlobIgnoreCase_build(ps[k]).val]

Compilable == {p \in ListPatterns : build_glob_pattern(p).ok}

Size(l) == Len(l.ignore_case_patterns) + Len(l.case_sensitive_patterns)

\* new, build, build_ignore_case and from_patterns are associated functions
\* without self: what they return does not depend on a list made before, so
\* a session starts with one of them
Starting == op = "idle"

\* any_match, all_match and is_empty take &self: the list after a query is
\* the list before it, so the session goes on from the list, not the query
Building == op \notin {"any_match", "all_match", "is_empty"}

NoBuild == patterns' = <<>> /\ built' = OkList(GlobList_new)

\* glob_list = GlobList::new()
New ==
    /\ Starting
    /\ glob_list' = GlobList_new
    /\ op' = "new"
    /\ NoBuild
    /\ UNCHANGED <<pattern, value, compiled, result>>

\* GlobList::build(&ps); an Ok replaces the list the caller holds
Build ==
    /\ Starting
    /\ \E ps \in BoundedSeq(ListPatterns, MaxListLen) :
        /\ patterns' = ps
        /\ built' = GlobList_build(ps)
    /\ glob_list' = IF built'.ok THEN built'.val ELSE glob_list
    /\ op' = "build"
    /\ UNCHANGED <<pattern, value, compiled, result>>

\* GlobList::build_ignore_case(&ps)
BuildIgnoreCase ==
    /\ Starting
    /\ \E ps \in BoundedSeq(ListPatterns, MaxListLen) :
        /\ patterns' = ps
        /\ built' = GlobList_build_ignore_case(ps)
    /\ glob_list' = IF built'.ok THEN built'.val ELSE glob_list
    /\ op' = "build_ignore_case"
    /\ UNCHANGED <<pattern, value, compiled, result>>

\* glob_list = GlobList::from_patterns(cs, ic)
FromPatterns ==
    /\ Starting
    /\ \E cs \in BoundedSeq(Compilable, MaxListLen), ic \in BoundedSeq(Compilable, MaxListLen) :
        /\ Len(cs) + Len(ic) <= MaxListLen
        /\ glob_list' = from_patterns(CaseSensitiveVec(cs), IgnoreCaseVec(ic))
    /\ op' = "from_patterns"
    /\ NoBuild
    /\ UNCHANGED <<pattern, value, compiled, result>>

\* glob_list.add_case_sensitive(GlobCaseSensitive::build(p).unwrap())
AddCaseSensitive ==
    /\ Building
    /\ Size(glob_list) < MaxListLen
    /\ \E p \in Compilable :
        glob_list' = add_case_sensitive(glob_list, GlobCaseSensitive_build(p).val)
    /\ op' = "add_case_sensitive"
    /\ NoBuild
    /\ UNCHANGED <<pattern, value, compiled, result>>

\* glob_list.add_ignore_case(GlobIgnoreCase::build(p).unwrap())
AddIgnoreCase ==
    /\ Building
    /\ Size(glob_list) < MaxListLen
    /\ \E p \in Compilable :
        glob_list' = add_ignore_case(glob_list, GlobIgnoreCase_build(p).val)
    /\ op' = "add_ignore_case"
    /\ NoBuild
    /\ UNCHANGED <<pattern, value, compiled, result>>

\* glob_list = GlobList::combine(vec![glob_list, other]) or
\* GlobList::combine(vec![other, glob_list]), other a one-pattern list
Combine ==
    /\ Building
    /\ Size(glob_list) < MaxListLen
    /\ \E p \in Compilable, ignore \in BOOLEAN, first \in BOOLEAN :
        LET other == IF ignore
                     THEN from_patterns(<<>>, IgnoreCaseVec(<<p>>))
                     ELSE from_patterns(CaseSensitiveVec(<<p>>), <<>>)
        IN glob_list' = IF first
                        THEN combine(<<glob_list, other>>)
                        ELSE combine(<<other, glob_list>>)
    /\ op' = "combine"
    /\ NoBuild
    /\ UNCHANGED <<pattern, value, compiled, result>>

\* glob_list.any_match(v)
AnyMatch ==
    /\ Building
    /\ \E v \in ListValues :
        /\ value' = v
        /\ result' = any_match(glob_list, v)
    /\ op' = "any_match"
    /\ UNCHANGED <<pattern, compiled, listVars>>

\* glob_list.all_match(v)
AllMatch ==
    /\ Building
    /\ \E v \in ListValues :
        /\ value' = v
        /\ result' = all_match(glob_list, v)
    /\ op' = "all_match"
    /\ UNCHANGED <<pattern, compiled, listVars>>

\* glob_list.is_empty()
IsEmpty ==
    /\ Building
    /\ result' = Bool(is_empty(glob_list))
    /\ op' = "is_empty"
    /\ UNCHANGED <<pattern, value, compiled, listVars>>

ListNext ==
    \/ New
    \/ Build
    \/ BuildIgnoreCase
    \/ FromPatterns
    \/ AddCaseSensitive
    \/ AddIgnoreCase
    \/ Combine
    \/ AnyMatch
    \/ AllMatch
    \/ IsEmpty

ListSpec == Init /\ [][ListNext]_vars

\* ------------------------------------------------- what the claims speak of
\* the position of the j-th wildcard of s
StarAt(s, j) ==
    CHOOSE k \in 1..Len(s) : s[k] = Star /\ Cardinality({m \in 1..k : s[m] = Star}) = j

\* the literal spans of s, the text before, between and after its wildcards
Span(s, j) ==
    SubSeq(s, IF j = 1 THEN 1 ELSE StarAt(s, j - 1) + 1,
              IF j = CountStar(s) + 1 THEN Len(s) ELSE StarAt(s, j) - 1)

Spans(s) == [j \in 1..(CountStar(s) + 1) |-> Span(s, j)]

\* two wildcards side by side
HasAdjacentStars(s) == \E k \in 1..(Len(s) - 1) : s[k] = Star /\ s[k + 1] = Star

\* v holds the literals lits[k..] one after the other, without overlap, at or
\* after position from
RECURSIVE ContainsInOrder(_, _, _, _)
ContainsInOrder(v, lits, k, from) ==
    IF k > Len(lits)
    THEN TRUE
    ELSE \E at \in from..(Len(v) - Len(lits[k]) + 1) :
            /\ SubSeq(v, at, at + Len(lits[k]) - 1) = lits[k]
            /\ ContainsInOrder(v, lits, k + 1, at + Len(lits[k]))

\* the pattern is *s1*s2*...*sn* with n >= 1 and every si non-empty
StarForm(s) ==
    /\ CountStar(s) >= 2
    /\ s[1] = Star
    /\ s[Len(s)] = Star
    /\ ~HasAdjacentStars(s)

\* s1, ..., sn of a pattern *s1*...*sn*
InnerLiterals(s) == [j \in 1..(CountStar(s) - 1) |-> Span(s, j + 1)]

\* the GlobPattern the wildcards of s call for
ExpectedMultipart(s) ==
    LET n == CountStar(s)
        sp == Spans(s)
        leading == sp[1] = <<>>
        first == IF leading THEN AnyUntil(sp[2]) ELSE ExactStart(sp[1])
        from == IF leading THEN 3 ELSE 2
        middle == [j \in 1..(n + 1 - from) |-> AnyUntil(sp[from + j - 1])]
        last == IF sp[n + 1] = <<>> THEN AnyEnd ELSE AnyUntilExactEnd(sp[n + 1])
    IN MultipartPattern(<<first>> \o middle \o <<last>>)

ExpectedPattern(s) ==
    LET n == CountStar(s)
        sp == Spans(s)
    IN IF s = <<Star>> THEN MatchAny
       ELSE IF n = 0 THEN MatchFull(s)
       ELSE IF n = 1
            THEN IF sp[1] = <<>> THEN MatchEnd(sp[2])
                 ELSE IF sp[2] = <<>> THEN MatchStart(sp[1])
                 ELSE MatchBothEnds(sp[1], sp[2])
            ELSE ExpectedMultipart(s)

\* the literals of the segments multi[k..], joined with wildcards
RECURSIVE JoinParts(_, _)
JoinParts(multi, k) ==
    IF k > Len(multi)
    THEN <<>>
    ELSE IF multi[k].kind = "ExactStart"
         THEN multi[k].s \o JoinParts(multi, k + 1)
         ELSE <<Star>> \o multi[k].s \o JoinParts(multi, k + 1)

\* the pattern string a GlobPattern stands for
Rejoin(gp) ==
    CASE gp.kind = "MatchAny" -> <<Star>>
      [] gp.kind = "MatchFull" -> gp.s1
      [] gp.kind = "MatchEnd" -> <<Star>> \o gp.s2
      [] gp.kind = "MatchStart" -> gp.s1 \o <<Star>>
      [] gp.kind = "MatchBothEnds" -> gp.s1 \o <<Star>> \o gp.s2
      [] gp.kind = "Multipart" -> JoinParts(gp.multi, 1)

\* the other letter case of a character
SwapCaseChar(c) == CASE c = "a" -> "A"
                     [] c = "A" -> "a"
                     [] c = "b" -> "B"
                     [] c = "B" -> "b"
                     [] OTHER -> c

\* s with the letter case of its k-th character changed
SwapCaseAt(s, k) == [m \in 1..Len(s) |-> IF m = k THEN SwapCaseChar(s[m]) ELSE s[m]]

\* GlobIgnoreCase::build(p), then is_match(v) on its Ok
IgnoreCaseMatch(p, v) ==
    LET g == GlobIgnoreCase_build(p)
    IN IF g.ok THEN GlobIgnoreCase_is_match(g.val, v) ELSE "err"

\* what each pattern the list holds answers for the subject v
HeldAnswers(l, v) ==
    {glob_match_prebuilt(l.case_sensitive_patterns[k], v) :
        k \in 1..Len(l.case_sensitive_patterns)}
    \cup
    {glob_match_prebuilt(l.ignore_case_patterns[k], to_uppercase(v)) :
        k \in 1..Len(l.ignore_case_patterns)}

\* how many characters of the subject v the matcher has taken when the segment
\* AnyUntilExactEnd becomes current in the loop 'outer, started at segment
\* current_pos with i characters taken; -1 when it never becomes current
RECURSIVE ExactEndEntry(_, _, _, _)
ExactEndEntry(multi, v, current_pos, i) ==
    LET n == IterNext(v, i)
        current == multi[current_pos]
    IN IF current.kind = "AnyUntilExactEnd"
       THEN i
       ELSE IF current.kind = "AnyEnd" \/ n.ch = None
            THEN -1
            ELSE LET r == IF current.kind = "ExactStart"
                          THEN ExactStartFor(current.s, v, 1, n.ch, n.i)
                          ELSE AnyUntilArm(current.s, v, n.ch, n.i)
                 IN IF r.out = "mismatch"
                    THEN ExactEndEntry(multi, v, current_pos, r.i)
                    ELSE IF r.out # "matched" \/ PastLast(multi, current_pos)
                         THEN -1
                         ELSE ExactEndEntry(multi, v, current_pos + 1, r.i)

\* the characters of v after the first i
Remainder(v, i) == SubSeq(v, i + 1, Len(v))

\* ------------------------------------------------------------------ claims
\* C1: matching a successfully compiled pattern against any subject returns
\* true or false; it never panics.
C1_MatchingIsTotal ==
    op = "glob_match_prebuilt" => result \in {"true", "false"}

\* C2: a pattern *s1*s2*...*sn* matches exactly the subjects that hold
\* s1, ..., sn in this order without overlap.
C2_StarFormIsContainment ==
    (op = "glob_match_prebuilt" /\ StarForm(pattern))
        => result = Bool(ContainsInOrder(value, InnerLiterals(pattern), 1, 1))

\* C3: when a pattern with two or more wildcards that does not end with a
\* wildcard matches, the subject ends with the pattern's trailing literal.
C3_ExactEndIsSuffix ==
    (/\ op = "glob_match_prebuilt"
     /\ CountStar(pattern) >= 2
     /\ pattern[Len(pattern)] # Star
     /\ result = "true")
        => ends_with(value, Span(pattern, CountStar(pattern) + 1))

\* C4: after a successful ExactStart(p) the search for the next segment
\* starts right after p: a pattern p*q* matches every subject that starts
\* with p followed at once by q.
C4_ExactStartConsumesItsLength ==
    (/\ op = "glob_match_prebuilt"
     /\ CountStar(pattern) = 2
     /\ ~HasAdjacentStars(pattern)
     /\ pattern[1] # Star
     /\ pattern[Len(pattern)] = Star
     /\ starts_with(value, Span(pattern, 1) \o Span(pattern, 2)))
        => result = "true"

\* C5: a pattern prefix*suffix with one interior wildcard matches exactly
\* the subjects made of prefix, zero or more characters, and suffix.
C5_BothEndsDoNotOverlap ==
    (/\ op = "glob_match_prebuilt"
     /\ CountStar(pattern) = 1
     /\ pattern[1] # Star
     /\ pattern[Len(pattern)] # Star)
        => result = Bool(/\ starts_with(value, Span(pattern, 1))
                         /\ ends_with(value, Span(pattern, 2))
                         /\ Len(value) >= Len(Span(pattern, 1)) + Len(Span(pattern, 2)))

\* C6: build_glob_pattern returns an error exactly for the patterns that
\* hold two adjacent wildcards.
C6_ErrIffAdjacentStars ==
    op = "build_glob_pattern" => (compiled.ok <=> ~HasAdjacentStars(pattern))

\* C7: a pattern that compiles compiles to the variant its wildcards call
\* for, holding its literal spans in order, and joining the literals with
\* wildcards gives the pattern back.
C7_CompiledShape ==
    (op = "build_glob_pattern" /\ compiled.ok)
        => /\ compiled.val = ExpectedPattern(pattern)
           /\ Rejoin(compiled.val) = pattern

\* C7 witness: a compiled pattern with three wildcards, a leading and a
\* trailing literal.
C7_Witness ==
    /\ op = "build_glob_pattern"
    /\ compiled.ok
    /\ compiled.val.kind = "Multipart"
    /\ Len(compiled.val.multi) = 3
    /\ compiled.val.multi[1].kind = "ExactStart"
    /\ compiled.val.multi[3].kind = "AnyUntilExactEnd"

\* C8: glob_match(p, v) and GlobIgnoreCase::build(p).is_match(v) are the
\* case-sensitive match of the uppercased pattern against the uppercased
\* subject, and changing the letter case of one character of p or of v
\* leaves them unchanged.
C8_IgnoreCaseIsUppercasedMatch ==
    /\ op = "glob_match" =>
        /\ result = glob_match_case_sensitive(to_uppercase(pattern), to_uppercase(value))
        /\ \A k \in 1..Len(pattern) : glob_match(SwapCaseAt(pattern, k), value) = result
        /\ \A k \in 1..Len(value) : glob_match(pattern, SwapCaseAt(value, k)) = result
    /\ op = "GlobIgnoreCase::is_match" =>
        /\ result = glob_match_case_sensitive(to_uppercase(pattern), to_uppercase(value))
        /\ \A k \in 1..Len(pattern) : IgnoreCaseMatch(SwapCaseAt(pattern, k), value) = result
        /\ \A k \in 1..Len(value) : IgnoreCaseMatch(pattern, SwapCaseAt(value, k)) = result

\* C8 witness: glob_match accepts a subject that the case-sensitive match of
\* the same pattern rejects, the two differing in letter case only.
C8_Witness ==
    /\ op = "glob_match"
    /\ result = "true"
    /\ CountStar(pattern) >= 2
    /\ value # <<>>
    /\ glob_match_case_sensitive(pattern, value) = "false"
    /\ \E k \in 1..Len(value) :
        glob_match_case_sensitive(pattern, SwapCaseAt(value, k)) = "true"

\* C9: any_match is true exactly when at least one held pattern matches,
\* all_match exactly when every held pattern matches, and is_empty exactly
\* when no pattern is held.
C9_AnyAllOverHeldPatterns ==
    /\ op = "any_match" => result = Bool("true" \in HeldAnswers(glob_list, value))
    /\ op = "all_match" => result = Bool(HeldAnswers(glob_list, value) \subseteq {"true"})
    /\ op = "is_empty" => result = Bool(Size(glob_list) = 0)

\* C10: GlobList::build and build_ignore_case return an error exactly when
\* one of the patterns does not compile, and otherwise a list that holds
\* the compiled patterns in input order, all in the bucket of the mode.
C10_BuildAllOrNothing ==
    /\ op = "build" =>
        /\ built.ok <=> \A k \in 1..Len(patterns) : build_glob_pattern(patterns[k]).ok
        /\ built.ok =>
            /\ glob_list = built.val
            /\ Len(glob_list.case_sensitive_patterns) = Len(patterns)
            /\ \A k \in 1..Len(patterns) :
                glob_list.case_sensitive_patterns[k] = build_glob_pattern(patterns[k]).val
            /\ glob_list.ignore_case_patterns = <<>>
        /\ ~built.ok => glob_list = GlobList_new
    /\ op = "build_ignore_case" =>
        /\ built.ok <=> \A k \in 1..Len(patterns) : build_glob_pattern(patterns[k]).ok
        /\ built.ok =>
            /\ glob_list = built.val
            /\ Len(glob_list.ignore_case_patterns) = Len(patterns)
            /\ \A k \in 1..Len(patterns) :
                glob_list.ignore_case_patterns[k]
                    = build_glob_pattern(to_uppercase(patterns[k])).val
            /\ glob_list.case_sensitive_patterns = <<>>
        /\ ~built.ok => glob_list = GlobList_new

\* C10 witness: a build that fails on its second pattern after the first
\* one compiled.
C10_Witness ==
    /\ op = "build"
    /\ Len(patterns) = 2
    /\ build_glob_pattern(patterns[1]).ok
    /\ ~build_glob_pattern(patterns[2]).ok
    /\ ~built.ok

\* C11: a pattern without wildcard matches, case-sensitively, exactly the
\* subject equal to it, and the pattern * matches every subject.
C11_FullIsEqualityAndStarIsAny ==
    op \in {"glob_match_prebuilt", "glob_match_case_sensitive"} =>
        /\ CountStar(pattern) = 0 => result = Bool(value = pattern)
        /\ pattern = <<Star>> => result = "true"

\* C11 witness: a pattern without wildcard rejects a subject that it is a
\* proper prefix of.
C11_Witness ==
    /\ op = "glob_match_prebuilt"
    /\ CountStar(pattern) = 0
    /\ pattern # <<>>
    /\ starts_with(value, pattern)
    /\ value # pattern
    /\ result = "false"

\* C12: when AnyUntilExactEnd(s) becomes the current segment and the
\* remainder of the subject is at least as long as s and ends with s, the
\* match succeeds.
C12_ExactEndFindsFinalOccurrence ==
    (/\ op = "glob_match_prebuilt"
     /\ compiled.val.kind = "Multipart"
     /\ ExactEndEntry(compiled.val.multi, value, 1, 0) >= 0
     /\ ends_with(Remainder(value, ExactEndEntry(compiled.val.multi, value, 1, 0)),
                  compiled.val.multi[Len(compiled.val.multi)].s))
        => result = "true"

\* C13: every Multipart that build_glob_pattern returns is non-empty, ends
\* with AnyEnd or AnyUntilExactEnd and holds neither earlier, holds
\* ExactStart at its first index only, and holds no empty literal in an
\* AnyUntil, ExactStart or AnyUntilExactEnd.
C13_SegmentInvariants ==
    (op = "build_glob_pattern" /\ compiled.ok /\ compiled.val.kind = "Multipart")
        => LET multi == compiled.val.multi
           IN /\ multi # <<>>
              /\ \A k \in 1..Len(multi) :
                    /\ multi[k].kind \in {"AnyEnd", "AnyUntilExactEnd"} <=> k = Len(multi)
                    /\ multi[k].kind = "ExactStart" => k = 1
                    /\ multi[k].kind # "AnyEnd" => multi[k].s # <<>>

====
